---- MODULE Spec2Model ----
(***************************************************************************)
(* Model of wkf_kata_machine_learning/data_utils.py: the extraction of     *)
(* kata performance records from sportdata.org draws pages.                *)
(*                                                                         *)
(* Texts are sequences of one-character strings, so that slicing,          *)
(* splitting, replacing and parsing are computed as Python computes them.  *)
(* One behaviour is one call of one function of the module: `call` names   *)
(* the function, `arg` its input and `ret` its outcome: the value it       *)
(* returned, or the exception it raised.                                   *)
(***************************************************************************)
EXTENDS Integers, Sequences, FiniteSets, TLC

VARIABLES call, pc, arg, ret,
          draws_urls, j, urls, i, data_rounds, frames, fetched, log

vars == <<call, pc, arg, ret,
          draws_urls, j, urls, i, data_rounds, frames, fetched, log>>

aggVars == <<draws_urls, j, urls, i, data_rounds, frames, fetched, log>>

\* ------------------------------------------------------------------ bounds

MaxGradeLen == 4
MaxCompetitorLen == 6
MaxHeaderLen == 9
MaxElems == 2
MaxTables == 2
MaxRows == 2
MaxLinks == 5
MaxEvents == 2

\* ----------------------------------------------------------- Python values

NoError == "NoError"
ValueError == "ValueError"
IndexError == "IndexError"
ConnectionError == "ConnectionError"

\* The outcome of a call that raised e.
Raise(e) == [raised |-> e]

\* The outcome of a call that has not finished.
Pending == [raised |-> "pending"]

Max(S) == CHOOSE x \in S : \A y \in S : y <= x

\* All sequences over S of length at most n.
SeqsUpTo(S, n) == UNION {[1..m -> S] : m \in 0..n}

\* s[:-n]
DropLast(s, n) == IF Len(s) <= n THEN <<>> ELSE SubSeq(s, 1, Len(s) - n)

\* s[p:] for a 1-based p
From(s, p) == IF p > Len(s) THEN <<>> ELSE SubSeq(s, p, Len(s))

\* The places where sep occurs in s.
Occurrences(s, sep) ==
    {p \in 1..(Len(s) - Len(sep) + 1) : SubSeq(s, p, p + Len(sep) - 1) = sep}

\* `sub in s`
Contains(s, sub) == Occurrences(s, sub) # {}

\* s.rsplit(sep, 1): one part when sep does not occur, else the text before the
\* last occurrence and the text after it.
RSplit1(s, sep) ==
    IF Occurrences(s, sep) = {} THEN <<s>>
    ELSE LET p == Max(Occurrences(s, sep))
         IN  <<SubSeq(s, 1, p - 1), From(s, p + Len(sep))>>

\* s.split(sep): every part, cut at the occurrences met from the left.
RECURSIVE Split(_, _)
Split(s, sep) ==
    IF Occurrences(s, sep) = {} THEN <<s>>
    ELSE LET p == CHOOSE q \in Occurrences(s, sep) :
                     \A r \in Occurrences(s, sep) : q <= r
         IN  <<SubSeq(s, 1, p - 1)>> \o Split(From(s, p + Len(sep)), sep)

RECURSIVE Flatten(_)
Flatten(seqs) == IF seqs = <<>> THEN <<>> ELSE seqs[1] \o Flatten(Tail(seqs))

\* s.replace(a, b) for one-character a and b
Replace(s, a, b) == [p \in 1..Len(s) |-> IF s[p] = a THEN b ELSE s[p]]

\* ------------------------------------------------------------------ float()

Digits == {"0", "1", "2", "3", "4", "5", "6", "7", "8", "9"}

DigitValue(c) ==
    CASE c = "0" -> 0 [] c = "1" -> 1 [] c = "2" -> 2 [] c = "3" -> 3
      [] c = "4" -> 4 [] c = "5" -> 5 [] c = "6" -> 6 [] c = "7" -> 7
      [] c = "8" -> 8 [] c = "9" -> 9

RECURSIVE DigitsValue(_)
DigitsValue(s) ==
    IF s = <<>> THEN 0
    ELSE 10 * DigitsValue(SubSeq(s, 1, Len(s) - 1)) + DigitValue(s[Len(s)])

RECURSIVE Strip(_)
Strip(s) ==
    IF s = <<>> THEN s
    ELSE IF s[1] = " " THEN Strip(Tail(s))
    ELSE IF s[Len(s)] = " " THEN Strip(SubSeq(s, 1, Len(s) - 1))
    ELSE s

AllDigits(s) == \A p \in 1..Len(s) : s[p] \in Digits

\* A number is kept exactly, as its whole part and the digits of its fraction
\* without trailing zeros: 8.5 is [whole |-> 8, frac |-> <<"5">>].
RECURSIVE DropTrailingZeros(_)
DropTrailingZeros(s) ==
    IF s # <<>> /\ s[Len(s)] = "0" THEN DropTrailingZeros(SubSeq(s, 1, Len(s) - 1))
    ELSE s

Number(whole, frac) == [whole |-> DigitsValue(whole), frac |-> DropTrailingZeros(frac)]

\* float() of a text without surrounding whitespace: it is accepted when it is
\* digits with at most one point and at least one digit.
FloatOfStripped(t) ==
    LET points == {p \in 1..Len(t) : t[p] = "."}
    IN  IF points = {}
        THEN IF t # <<>> /\ AllDigits(t)
             THEN [raised |-> NoError, value |-> Number(t, <<>>)]
             ELSE Raise(ValueError)
        ELSE LET p == Max(points)
                 whole == SubSeq(t, 1, p - 1)
                 frac == From(t, p + 1)
             IN  IF AllDigits(whole) /\ AllDigits(frac) /\ Len(whole) + Len(frac) > 0
                 THEN [raised |-> NoError, value |-> Number(whole, frac)]
                 ELSE Raise(ValueError)

\* float(s): the number, or ValueError
Float(s) == FloatOfStripped(Strip(s))

\* Mutant: the comma is not replaced before parsing.
GradeToFloatNoReplace(s) == Float(s)

\* float(i.replace(',', '.'))
GradeToFloat(s) == Float(Replace(s, ",", "."))

\* ------------------------------------------------------- competitor texts

\* Mutant: the text is cut at the first " (" instead of the last.
CompetitorNameFirst(competitor) == Split(competitor, <<" ", "(">>)[1]

\* competitor.rsplit(" (",1)[0]
CompetitorName(competitor) == RSplit1(competitor, <<" ", "(">>)[1]

\* competitor.rsplit(",",1)[-1][:-1]
CompetitorNationality(competitor) ==
    LET parts == RSplit1(competitor, <<",">>)
    IN  DropLast(parts[Len(parts)], 1)

\* ------------------------------------------------------------ header text

\* Mutant: every trailing blank is stripped instead of the last two characters.
HeaderSplitStripped(text) ==
    LET parts == RSplit1(Strip(text), <<" ", "-", " ">>)
    IN  IF Len(parts) = 2
        THEN [raised |-> NoError, tournament |-> parts[1], category |-> parts[2]]
        ELSE Raise(ValueError)

\* soup.find_all("div", {"class": "newsheader"})[0].text[:-2].rsplit(" - ",1),
\* unpacked into (tournament, category)
HeaderSplit(text) ==
    LET parts == RSplit1(DropLast(text, 2), <<" ", "-", " ">>)
    IN  IF Len(parts) = 2
        THEN [raised |-> NoError, tournament |-> parts[1], category |-> parts[2]]
        ELSE Raise(ValueError)

\* soup.find_all(tag, {"class": class}) over the document's elements, in
\* document order
FindAll(doc, tag, class) ==
    SelectSeq(doc, LAMBDA e : e.tag = tag /\ e.class \in class)

\* category_data(category_url), after the page was fetched and parsed
CategoryData(soup) ==
    LET headers == soup.newsheader
    IN  IF Len(headers) = 0 THEN Raise(IndexError)
        ELSE LET h == HeaderSplit(headers[1])
             IN  IF h.raised # NoError THEN h
                 ELSE [raised |-> NoError,
                       tables |-> FindAll(soup.doc, "table", {"moduletable_draw"}),
                       tournament |-> h.tournament,
                       category |-> h.category]

\* --------------------------------------------------- get_round_performances

PerformanceClasses == {"dctabrowwhite", "dctabrowgreen"}

\* [grade.text for grade in TEC[1:8]]
GradeTexts(cells) ==
    IF Len(cells) < 2 THEN <<>>
    ELSE SubSeq(cells, 2, IF Len(cells) < 8 THEN Len(cells) ELSE 8)

\* [float(i.replace(',', '.')) for i in grades] from grade n on, values being
\* the numbers so far: the numbers, or the first failure
RECURSIVE GradesToFloatsFrom(_, _, _)
GradesToFloatsFrom(texts, n, values) ==
    IF n > Len(texts) THEN [raised |-> NoError, values |-> values]
    ELSE LET grade == GradeToFloat(texts[n])
         IN  IF grade.raised # NoError THEN grade
             ELSE GradesToFloatsFrom(texts, n + 1, Append(values, grade.value))

GradesToFloats(texts) == GradesToFloatsFrom(texts, 1, <<>>)

\* float(TEC[-1].text)
LastCellFloat(cells) ==
    IF cells = <<>> THEN Raise(IndexError) ELSE Float(cells[Len(cells)])

\* Whether the row passes the test of line 82.
HasPerformance(kata, performance) == Len(kata) > 0 /\ Len(performance.trs) > 0

\* The body of the loop over a pool's result rows (lines 71-107): the records the
\* row adds to data (none or one), or the exception it raises.
RowPerformance(performance, tournament, category, pool) ==
    IF Len(performance.bold) = 0 THEN Raise(IndexError)
    ELSE IF Len(performance.tds) < 3 THEN Raise(IndexError)
    ELSE
    LET competitor == performance.bold[1]
        kata == performance.tds[3]
    IN  IF ~HasPerformance(kata, performance)
        THEN [raised |-> NoError, data |-> <<>>]
        ELSE IF Len(performance.trs) < 2 THEN Raise(IndexError)
        ELSE
        LET TEC == performance.trs[1]
            ATH == performance.trs[2]
            technical_score == LastCellFloat(TEC)
            athletic_score == LastCellFloat(ATH)
            total_score == Float(performance.tds[Len(performance.tds)])
            technical_grades == GradesToFloats(GradeTexts(TEC))
            athletic_grades == GradesToFloats(GradeTexts(ATH))
        IN  IF technical_score.raised # NoError THEN technical_score
            ELSE IF athletic_score.raised # NoError THEN athletic_score
            ELSE IF total_score.raised # NoError THEN total_score
            ELSE IF technical_grades.raised # NoError THEN technical_grades
            ELSE IF athletic_grades.raised # NoError THEN athletic_grades
            ELSE [raised |-> NoError,
                  data |-> <<[Tournament |-> tournament,
                              Category |-> category,
                              Pool |-> pool,
                              Name |-> CompetitorName(competitor),
                              Nationality |-> CompetitorNationality(competitor),
                              Kata |-> kata,
                              TEC |-> technical_grades.values,
                              ATH |-> athletic_grades.values,
                              Score |-> total_score.value]>>]

\* The loop over the result rows of one pool (line 70) from row k on, data
\* being the records appended so far.
RECURSIVE RowsPerformances(_, _, _, _, _, _)
RowsPerformances(performances, k, tournament, category, pool, data) ==
    IF k > Len(performances) THEN [raised |-> NoError, data |-> data]
    ELSE LET row == RowPerformance(performances[k], tournament, category, pool)
         IN  IF row.raised # NoError THEN row
             ELSE RowsPerformances(performances, k + 1, tournament, category, pool,
                                   data \o row.data)

\* One pass of the loop over the pool tables (lines 67-107).
TablePerformances(table, tournament, category, data) ==
    IF Len(table.rows) = 0 THEN Raise(IndexError)
    ELSE LET parts == Split(table.rows[1].text, <<":">>)
         IN  IF Len(parts) < 2 THEN Raise(IndexError)
             ELSE RowsPerformances(
                      SelectSeq(table.rows, LAMBDA tr : tr.class \in PerformanceClasses),
                      1, tournament, category, parts[2], data)

\* The loop over the pool tables (line 66) from table t on.
RECURSIVE TablesPerformances(_, _, _, _, _)
TablesPerformances(tables, t, tournament, category, data) ==
    IF t > Len(tables) THEN [raised |-> NoError, data |-> data]
    ELSE LET pool == TablePerformances(tables[t], tournament, category, data)
         IN  IF pool.raised # NoError THEN pool
             ELSE TablesPerformances(tables, t + 1, tournament, category, pool.data)

\* What requests.get gives for a URL: a page, or no page at all.
NoResponse == [failed |-> TRUE]

Response(soup) == [failed |-> FALSE, soup |-> soup]

\* get_round_performances(url), given what the URL answers
get_round_performances(response) ==
    IF response.failed THEN Raise(ConnectionError)
    ELSE LET cat == CategoryData(response.soup)
         IN  IF cat.raised # NoError THEN cat
             ELSE TablesPerformances(cat.tables, 1, cat.tournament, cat.category, <<>>)

\* ---------------------------------------------------------- get_rounds_urls

BasePath == "https://www.sportdata.org/wkf/set-online/"

MaleKata == <<"M", "a", "l", "e", " ", "K", "a", "t", "a">>
FemaleKata == <<"F", "e", "m", "a", "l", "e", " ", "K", "a", "t", "a">>

\* The number of trailing datalink2 links left out (the slice [:-3]).
TrailingLinks == 3

\* The loop over the links (lines 126-128): a URL is a sequence of texts, the
\* base path followed by the characters of the href.
RECURSIVE KataUrls(_)
KataUrls(links) ==
    IF links = <<>> THEN <<>>
    ELSE (IF Contains(links[1].title, MaleKata) \/ Contains(links[1].title, FemaleKata)
          THEN <<(<<BasePath>> \o links[1].href)>>
          ELSE <<>>) \o KataUrls(Tail(links))

\* Mutant: the last three links are not left out.
GetRoundsUrlsOfAllLinks(response) ==
    IF response.failed THEN Raise(ConnectionError)
    ELSE [raised |-> NoError,
          urls |-> KataUrls(FindAll(response.soup.doc, "a", {"datalink2"}))]

\* get_rounds_urls(draws_url), given what the URL answers
get_rounds_urls(response) ==
    IF response.failed THEN Raise(ConnectionError)
    ELSE [raised |-> NoError,
          urls |-> KataUrls(DropLast(FindAll(response.soup.doc, "a", {"datalink2"}),
                                     TrailingLinks))]

\* ------------------------------------------------------------------- pandas

\* pd.DataFrame(records): the rows of the table, in the order of the records
DataFrame(records) == records

\* Mutant: the tables are laid out last to first.
RECURSIVE ConcatReversed(_)
ConcatReversed(tables) ==
    IF tables = <<>> THEN Raise(ValueError)
    ELSE IF Len(tables) = 1 THEN [raised |-> NoError, df |-> tables[1]]
    ELSE [raised |-> NoError,
          df |-> ConcatReversed(Tail(tables)).df \o tables[1]]

\* Mutant: no tables give an empty table.
ConcatLenient(tables) == [raised |-> NoError, df |-> Flatten(tables)]

\* pd.concat(tables) of lines 150 and 168: the rows of the tables one table
\* after the other; ValueError ("No objects to concatenate") for no table
Concat(tables) ==
    IF tables = <<>> THEN Raise(ValueError)
    ELSE [raised |-> NoError, df |-> Flatten(tables)]

\* ------------------------------------------------------------------ inputs

GradeChars == {"8", "5", ",", ".", "x", " "}
CompetitorChars == {"A", " ", "(", ")", ","}
HeaderChars == {"a", " ", "-"}

ElemKinds == {[tag |-> "table", class |-> "moduletable_draw"],
              [tag |-> "table", class |-> "moduletable"],
              [tag |-> "div", class |-> "moduletable_draw"]}

\* A document of elements of the given kinds; id is the place in the document.
Document(kinds) ==
    [p \in 1..Len(kinds) |-> [tag |-> kinds[p].tag, class |-> kinds[p].class, id |-> p]]

\* ------------------------------------------------------- category pages

\* A result row: <tr class=...> with the cells rank, competitor (in bold), kata,
\* then, when the competitor was graded, a cell holding the nested grade rows,
\* and last the total score. tds are the row's <td> in document order, the
\* nested ones included; trs are the nested <tr>, each the texts of its <td>.
ResultRow(class, competitor, kata, subrows, score) ==
    [class |-> class,
     text |-> competitor \o kata \o Flatten(Flatten(subrows)) \o score,
     bold |-> <<competitor>>,
     tds |-> <<(<<"1">>), competitor, kata>>
             \o (IF subrows = <<>> THEN <<>> ELSE <<Flatten(Flatten(subrows))>>)
             \o Flatten(subrows) \o <<score>>,
     trs |-> subrows]

\* The first row of a pool table, which names the pool.
TitleRow(text) ==
    [class |-> "dctabrowtitle", text |-> text, bold |-> <<>>, tds |-> <<text>>,
     trs |-> <<>>]

PoolTable(id, caption, rows) ==
    [tag |-> "table", class |-> "moduletable_draw", id |-> id,
     rows |-> <<TitleRow(caption)>> \o rows]

CategoryPage(header, pools) ==
    [newsheader |-> <<header>>,
     doc |-> [p \in 1..Len(pools) |-> PoolTable(p, pools[p].caption, pools[p].rows)]]

\* A page without the header block (an error page of the site).
BlankPage == [newsheader |-> <<>>, doc |-> <<>>]

GoodHeader == <<"T", " ", "-", " ", "C", " ", " ">>

CommaGrade == <<"8", ",", "5">>
PointGrade == <<"8", ".", "5">>
Subtotal == <<"5", "8", ".", "8">>

\* A grade row: the label, seven grades, the subtotal.
GradeRow(label, grade) ==
    <<label>> \o [p \in 1..7 |-> grade] \o <<Subtotal>>

FullGrades == <<GradeRow(<<"T">>, CommaGrade), GradeRow(<<"A">>, PointGrade)>>

CompetitorA == <<"A", " ", "(", "X", ",", "J", ")">>
CompetitorB == <<"B", " ", "(", "Y", ",", "E", ")">>
Kata == <<"K">>
Score == <<"8", "5", ".", "5">>

RowA == ResultRow("dctabrowwhite", CompetitorA, Kata, FullGrades, Score)
RowB == ResultRow("dctabrowgreen", CompetitorB, Kata, FullGrades, Score)
RowNoShow == ResultRow("dctabrowgreen", CompetitorB, <<>>, <<>>, <<>>)
RowNoKata == ResultRow("dctabrowwhite", CompetitorA, <<>>, FullGrades, Score)
RowNoGrades == ResultRow("dctabrowwhite", CompetitorB, Kata, <<>>, <<>>)
RowOneGradeRow ==
    ResultRow("dctabrowgreen", CompetitorA, Kata, <<GradeRow(<<"T">>, CommaGrade)>>, Score)
RowShortGradeRows ==
    ResultRow("dctabrowwhite", CompetitorB, Kata,
              <<(<<(<<"T">>), CommaGrade, PointGrade>>),
                (<<(<<"A">>), CommaGrade, PointGrade>>)>>, Score)
RowCommaScore ==
    ResultRow("dctabrowgreen", CompetitorA, Kata, FullGrades, <<"8", "5", ",", "5">>)
RowBadGrade ==
    ResultRow("dctabrowwhite", CompetitorA, Kata,
              <<GradeRow(<<"T">>, CommaGrade), GradeRow(<<"A">>, <<"x">>)>>, Score)

RowKinds == {RowA, RowB, RowNoShow, RowNoKata, RowNoGrades, RowOneGradeRow,
             RowShortGradeRows, RowCommaScore, RowBadGrade}

Captions == {<<"P", ":", "1">>, <<"P", ":", "2">>, <<"P">>}

\* The pages with at most MaxTables pools of at most MaxRows rows each.
CategoryPages(rowKinds, captions) ==
    {CategoryPage(GoodHeader, pools) :
        pools \in SeqsUpTo([caption : captions, rows : SeqsUpTo(rowKinds, MaxRows)],
                           MaxTables)}

\* ------------------------------------------------------ draws-index pages

MaleKumite == <<"M", "a", "l", "e", " ", "K", "u", "m", "i", "t", "e">>
FemaleTeamKata == <<"F", "e", "m", "a", "l", "e", " ", "T", "e", "a", "m", " ", "K", "a", "t", "a">>

Anchor(class, title, href) == [tag |-> "a", class |-> class, title |-> title, href |-> href]

KataLink == Anchor("datalink2", MaleKata, <<"r">>)
KumiteLink == Anchor("datalink2", MaleKumite, <<"k">>)

LinkKinds == {KataLink,
              Anchor("datalink2", MaleKata, <<"s">>),
              Anchor("datalink2", FemaleKata, <<"r">>),
              KumiteLink,
              Anchor("datalink2", FemaleTeamKata, <<"t">>),
              Anchor("datalink", MaleKata, <<"m">>)}

\* The index pages with at most MaxLinks links of the given kinds.
IndexPages(kinds) ==
    {[newsheader |-> <<>>,
      doc |-> [p \in 1..Len(links) |->
                 [tag |-> links[p].tag, class |-> links[p].class,
                  title |-> links[p].title, href |-> links[p].href, id |-> p]]] :
        links \in SeqsUpTo(kinds, MaxLinks)}

idle == <<>>

AggIdle ==
    /\ draws_urls = idle /\ j = 0 /\ urls = idle /\ i = 0
    /\ data_rounds = idle /\ frames = idle /\ fetched = idle /\ log = idle

Finish(outcome) ==
    /\ ret' = outcome
    /\ pc' = IF ret'.raised = NoError THEN "returned" ELSE "raised"

\* ------------------------------------------------- grade conversion alone

InitGrade ==
    /\ call = "grade_to_float"
    /\ pc = "start"
    /\ arg \in SeqsUpTo(GradeChars, MaxGradeLen)
    /\ ret = Pending
    /\ AggIdle

ConvertGrade ==
    /\ call = "grade_to_float" /\ pc = "start"
    /\ Finish(GradeToFloat(arg))
    /\ UNCHANGED <<call, arg, aggVars>>

SpecGrade == InitGrade /\ [][ConvertGrade]_vars

\* ------------------------------------------------ competitor text parsing

InitCompetitor ==
    /\ call = "competitor"
    /\ pc = "start"
    /\ arg \in SeqsUpTo(CompetitorChars, MaxCompetitorLen)
    /\ ret = Pending
    /\ AggIdle

ParseCompetitor ==
    /\ call = "competitor" /\ pc = "start"
    /\ Finish([raised |-> NoError,
               Name |-> CompetitorName(arg),
               Nationality |-> CompetitorNationality(arg)])
    /\ UNCHANGED <<call, arg, aggVars>>

SpecCompetitor == InitCompetitor /\ [][ParseCompetitor]_vars

\* ------------------------------------------------------------ category_data

InitCategory ==
    /\ call = "category_data"
    /\ pc = "start"
    /\ \E hs \in {<<>>} \cup {<<h>> : h \in SeqsUpTo(HeaderChars, MaxHeaderLen)} :
          arg = [newsheader |-> hs, doc |-> <<>>]
    /\ ret = Pending
    /\ AggIdle

\* line 28: the header is found, cut and split
category_data_header ==
    /\ call = "category_data" /\ pc = "start"
    /\ LET out == CategoryData(arg)
       IN  IF out.raised = NoError
           THEN pc' = "tables" /\ ret' = ret
           ELSE Finish(out)
    /\ UNCHANGED <<call, arg, aggVars>>

\* lines 31-32: the pool tables are collected from the document, whose elements
\* are read only here
category_data_tables ==
    /\ call = "category_data" /\ pc = "tables"
    /\ \E kinds \in SeqsUpTo(ElemKinds, MaxElems) :
          /\ arg' = [arg EXCEPT !.doc = Document(kinds)]
          /\ Finish(CategoryData(arg'))
    /\ UNCHANGED <<call, aggVars>>

NextCategory == category_data_header \/ category_data_tables

SpecCategory == InitCategory /\ [][NextCategory]_vars

\* ------------------------------------------- one get_round_performances call

InitRound ==
    /\ call = "get_round_performances"
    /\ pc = "start"
    /\ arg \in {NoResponse, Response(BlankPage)}
               \cup {Response(page) : page \in CategoryPages(RowKinds, Captions)}
    /\ ret = Pending
    /\ AggIdle

GetRoundPerformances ==
    /\ call = "get_round_performances" /\ pc = "start"
    /\ Finish(get_round_performances(arg))
    /\ UNCHANGED <<call, arg, aggVars>>

SpecRound == InitRound /\ [][GetRoundPerformances]_vars

\* ------------------------------------------------- one get_rounds_urls call

InitUrls ==
    /\ call = "get_rounds_urls"
    /\ pc = "start"
    /\ arg \in {NoResponse} \cup {Response(page) : page \in IndexPages(LinkKinds)}
    /\ ret = Pending
    /\ AggIdle

GetRoundsUrls ==
    /\ call = "get_rounds_urls" /\ pc = "start"
    /\ Finish(get_rounds_urls(arg))
    /\ UNCHANGED <<call, arg, aggVars>>

SpecUrls == InitUrls /\ [][GetRoundsUrls]_vars

\* -------------------------------------------------- one concat_tournaments call

\* The URL on line e of the input file.
EventUrl(e) == <<"event", e>>

AggLinkKinds == {KataLink, KumiteLink}

PoolOne == <<"P", ":", "1">>
PoolTwo == <<"P", ":", "2">>

\* What a round URL may answer: nothing; a page without pools; a page with one
\* graded competitor; a page with two pools, a no-show among the competitors;
\* a page with a grade that is no number.
AggRoundResponses ==
    {NoResponse,
     Response(CategoryPage(GoodHeader, <<>>)),
     Response(CategoryPage(GoodHeader, <<[caption |-> PoolOne, rows |-> <<RowA>>]>>)),
     Response(CategoryPage(GoodHeader,
                           <<[caption |-> PoolOne, rows |-> <<RowB, RowNoShow>>],
                             [caption |-> PoolTwo, rows |-> <<RowA>>]>>)),
     Response(CategoryPage(GoodHeader, <<[caption |-> PoolOne, rows |-> <<RowBadGrade>>]>>))}

AggIndexResponses ==
    {NoResponse} \cup {Response(page) : page \in IndexPages(AggLinkKinds)}

\* lines 165-167: the file has been read
InitAgg ==
    /\ call = "concat_tournaments"
    /\ pc = "get_performances"
    /\ arg = "filename"
    /\ ret = Pending
    /\ \E n \in 0..MaxEvents : draws_urls = [e \in 1..n |-> EventUrl(e)]
    /\ j = 1
    /\ urls = <<>>
    /\ i = 1
    /\ data_rounds = <<>>
    /\ frames = <<>>
    /\ fetched = <<>>
    /\ log = <<>>

\* Mutant: the exception is caught and what was collected so far is returned.
PropagateCaught(outcome) ==
    /\ Finish([raised |-> NoError, df |-> Flatten(frames \o data_rounds)])
    /\ UNCHANGED <<j, urls, i, data_rounds, frames>>

\* What becomes of an element of a list comprehension that raised: the
\* exception leaves the comprehension and the function.
Propagate(outcome) ==
    /\ Finish(outcome)
    /\ UNCHANGED <<j, urls, i, data_rounds, frames>>

\* The rest of line 144 once the index page has answered.
RoundsUrlsGot(out) ==
    /\ log' = Append(log, [event |-> j, round |-> 0, outcome |-> out])
    /\ IF out.raised # NoError
       THEN Propagate(out)
       ELSE /\ urls' = out.urls
            /\ i' = 1
            /\ data_rounds' = <<>>
            /\ pc' = "get_round_performances"
            /\ UNCHANGED <<ret, j, frames>>

\* line 144, for event j of the comprehension of line 168
AggGetRoundsUrls ==
    /\ call = "concat_tournaments" /\ pc = "get_performances"
    /\ j <= Len(draws_urls)
    /\ fetched' = Append(fetched, draws_urls[j])
    /\ \E response \in AggIndexResponses : RoundsUrlsGot(get_rounds_urls(response))
    /\ UNCHANGED <<call, arg, draws_urls>>

\* The rest of line 147 once the round's page has answered.
RoundPerformancesGot(out) ==
    /\ log' = Append(log, [event |-> j, round |-> i, outcome |-> out])
    /\ IF out.raised # NoError
       THEN Propagate(out)
       ELSE /\ data_rounds' = Append(data_rounds, DataFrame(out.data))
            /\ i' = i + 1
            /\ UNCHANGED <<pc, ret, j, urls, frames>>

\* line 147, for round i of event j
AggGetRoundPerformances ==
    /\ call = "concat_tournaments" /\ pc = "get_round_performances"
    /\ i <= Len(urls)
    /\ fetched' = Append(fetched, urls[i])
    /\ \E response \in AggRoundResponses :
          RoundPerformancesGot(get_round_performances(response))
    /\ UNCHANGED <<call, arg, draws_urls>>

\* line 150: the rounds of event j are concatenated, and get_performances returns
AggConcatRounds ==
    /\ call = "concat_tournaments" /\ pc = "get_round_performances"
    /\ i > Len(urls)
    /\ LET out == Concat(data_rounds)
       IN  IF out.raised # NoError
           THEN Propagate(out)
           ELSE /\ frames' = Append(frames, out.df)
                /\ j' = j + 1
                /\ pc' = "get_performances"
                /\ UNCHANGED <<ret, urls, i, data_rounds>>
    /\ UNCHANGED <<call, arg, draws_urls, fetched, log>>

\* lines 168-169: the events are concatenated, and concat_tournaments returns
AggConcatEvents ==
    /\ call = "concat_tournaments" /\ pc = "get_performances"
    /\ j > Len(draws_urls)
    /\ Finish(Concat(frames))
    /\ UNCHANGED <<call, arg, draws_urls, j, urls, i, data_rounds, frames, fetched, log>>

NextAgg ==
    \/ AggGetRoundsUrls
    \/ AggGetRoundPerformances
    \/ AggConcatRounds
    \/ AggConcatEvents

SpecAgg == InitAgg /\ [][NextAgg]_vars

\* ------------------------------------ a round alone, or a whole aggregation

OrderRows == {RowA, RowB, RowNoShow}

InitOrder ==
    /\ call = "get_round_performances"
    /\ pc = "start"
    /\ arg \in {Response(page) : page \in CategoryPages(OrderRows, {PoolOne})}
    /\ ret = Pending
    /\ AggIdle

SpecOrder == (InitOrder \/ InitAgg) /\ [][GetRoundPerformances \/ NextAgg]_vars

\* ======================================================== claims: C6

Separators == {",", "."}

\* digits, a comma, digits: the decimal-comma form
DecimalCommaForm(s) ==
    \E p \in 2..(Len(s) - 1) :
        /\ s[p] = ","
        /\ \A q \in (1..Len(s)) \ {p} : s[q] \in Digits

\* The places of s that hold no blank.
Inked(s) == {p \in 1..Len(s) : s[p] # " "}

\* Between its surrounding blanks the text is digits with at most one comma or
\* point among them, and at least one digit.
DecimalForm(s) ==
    /\ Inked(s) # {}
    /\ LET lo == CHOOSE p \in Inked(s) : \A q \in Inked(s) : p <= q
           hi == Max(Inked(s))
       IN  /\ \A p \in lo..hi : s[p] \in Digits \cup Separators
           /\ Cardinality({p \in lo..hi : s[p] \in Separators}) <= 1
           /\ \E p \in lo..hi : s[p] \in Digits

EightAndAHalf == [whole |-> 8, frac |-> <<"5">>]

OpenParen == <<" ", "(">>

\* The text after the last comma of s (all of s when it has none).
AfterLastComma(s) ==
    LET commas == {p \in 1..Len(s) : s[p] = ","}
    IN  IF commas = {} THEN s ELSE From(s, Max(commas) + 1)

\* C9 as stated: Name is the text before the FIRST " (", and for a text that
\* ends with a parenthesis Nationality is its last comma-delimited segment
\* without that parenthesis.
C9_NameBeforeFirstParen ==
    (call = "competitor" /\ pc = "returned") =>
        /\ ~Contains(ret.Name, OpenParen)
        /\ \/ ret.Name = arg
           \/ SubSeq(arg, 1, Len(ret.Name) + 2) = ret.Name \o OpenParen
        /\ (arg # <<>> /\ arg[Len(arg)] = ")" =>
               ret.Nationality \o <<")">> = AfterLastComma(arg))

\* C9 amended: Name is the text before the LAST " (" (the whole text when
\* there is none); Nationality is the text after the last comma (the whole
\* text when there is none) without its last character.
C9_NameBeforeLastParen ==
    (call = "competitor" /\ pc = "returned") =>
        /\ IF Contains(arg, OpenParen)
           THEN /\ SubSeq(arg, 1, Len(ret.Name) + 2) = ret.Name \o OpenParen
                /\ ~Contains(From(arg, Len(ret.Name) + 2), OpenParen)
           ELSE ret.Name = arg
        /\ IF AfterLastComma(arg) = <<>>
           THEN ret.Nationality = <<>>
           ELSE ret.Nationality \o <<arg[Len(arg)]>> = AfterLastComma(arg)

\* A competitor text with two " (" has been parsed.
C9_Witness ==
    /\ call = "competitor" /\ pc = "returned"
    /\ Cardinality(Occurrences(arg, OpenParen)) >= 2
    /\ Contains(ret.Name, OpenParen)

\* ======================================================== claims: C3

Dash == <<" ", "-", " ">>

\* The header without its trailing blanks.
Stripped(text) ==
    LET inked == Inked(text)
    IN  IF inked = {} THEN <<>> ELSE SubSeq(text, 1, Max(inked))

DrawTableIds(doc) ==
    {e.id : e \in {doc[p] : p \in 1..Len(doc)} \cap
                  {e \in [tag : {"table"}, class : {"moduletable_draw"}, id : 1..Len(doc)] : TRUE}}

TablesInDocumentOrder(tables, doc) ==
    /\ {tables[p].id : p \in 1..Len(tables)} = DrawTableIds(doc)
    /\ \A p, q \in 1..Len(tables) : p < q => tables[p].id < tables[q].id

\* C3 as stated: whatever the number of trailing blanks of the header, the
\* header without them is split at its last " - ".
C3_SplitsStrippedHeader ==
    (/\ call = "category_data" /\ pc \in {"returned", "raised"}
     /\ Len(arg.newsheader) > 0
     /\ Contains(Stripped(arg.newsheader[1]), Dash)) =>
        /\ pc = "returned"
        /\ ret.tournament \o Dash \o ret.category = Stripped(arg.newsheader[1])
        /\ ~Contains(ret.category, Dash)
        /\ TablesInDocumentOrder(ret.tables, arg.doc)

\* C3 amended: the header loses exactly its last two characters, whatever they
\* are, and the rest is split at its last " - "; the call raises exactly when
\* there is no header or the rest holds no " - "; the tables returned are the
\* moduletable_draw tables in document order.
C3_SplitsHeaderLessTwo ==
    (call = "category_data" /\ pc \in {"returned", "raised"}) =>
        LET hs == arg.newsheader
            splits == IF hs = <<>> THEN {}
                      ELSE {p \in 1..(Len(hs[1]) - 4) : SubSeq(hs[1], p, p + 2) = Dash}
        IN  /\ (pc = "raised") <=> (splits = {})
            /\ (pc = "returned" =>
                   /\ ret.tournament = SubSeq(hs[1], 1, Max(splits) - 1)
                   /\ ret.category = SubSeq(hs[1], Max(splits) + 3, Len(hs[1]) - 2)
                   /\ ~Contains(ret.category, Dash)
                   /\ TablesInDocumentOrder(ret.tables, arg.doc))

\* A header with two " - " and two trailing blanks has been split, and of the
\* two elements of the document the second, a pool table, was returned.
C3_Witness ==
    /\ call = "category_data" /\ pc = "returned"
    /\ arg.newsheader[1] = <<" ", "-", " ", " ", "-", " ", "a", " ", " ">>
    /\ ret.tournament = Dash
    /\ ret.category = <<"a">>
    /\ Len(arg.doc) = 2
    /\ Len(ret.tables) = 1 /\ ret.tables[1].id = 2

\* ================================================== claims: C1, C4, C7

\* s without its p-th element
Without(s, p) == SubSeq(s, 1, p - 1) \o From(s, p + 1)

\* The page without row k of its table t.
PageWithoutRow(soup, t, k) ==
    [soup EXCEPT !.doc[t].rows = Without(@, k)]

\* A result row with no kata text, or with fewer than two nested grade rows.
Incomplete(row) ==
    /\ row.class \in PerformanceClasses
    /\ Len(row.tds[3]) = 0 \/ Len(row.trs) < 2

\* C1 (omission): an incomplete result row emits nothing and does not make
\* the call fail: whenever the page without that row is processed, the page
\* with it is processed too, with the same records.
C1_IncompleteRowOmitted ==
    (call = "get_round_performances" /\ pc \in {"returned", "raised"} /\ ~arg.failed) =>
        \A t \in 1..Len(arg.soup.doc) :
            \A k \in 2..Len(arg.soup.doc[t].rows) :
                LET without == get_round_performances(
                                   Response(PageWithoutRow(arg.soup, t, k)))
                IN  (Incomplete(arg.soup.doc[t].rows[k]) /\ without.raised = NoError) =>
                        pc = "returned" /\ ret.data = without.data

\* C4: every record has exactly seven technical grades, seven athletic
\* grades and a kata.
C4_SevenGrades ==
    (call = "get_round_performances" /\ pc = "returned") =>
        \A r \in 1..Len(ret.data) :
            /\ Len(ret.data[r].TEC) = 7
            /\ Len(ret.data[r].ATH) = 7
            /\ ret.data[r].Kata # <<>>

\* The page with, in the last cell of every result row, commas read as points.
ScoresNormalised(soup) ==
    [soup EXCEPT !.doc =
        [t \in 1..Len(soup.doc) |->
            [soup.doc[t] EXCEPT !.rows =
                [k \in 1..Len(soup.doc[t].rows) |->
                    LET tr == soup.doc[t].rows[k]
                    IN  IF tr.class \in PerformanceClasses
                        THEN [tr EXCEPT !.tds[Len(tr.tds)] = Replace(@, ",", ".")]
                        ELSE tr]]]]

\* C7: the score is converted as the grades are, commas read as points: a
\* page gives what the same page with its scores written with points gives.
C7_ScoreConvertedLikeGrades ==
    (call = "get_round_performances" /\ pc \in {"returned", "raised"} /\ ~arg.failed) =>
        ret = get_round_performances(Response(ScoresNormalised(arg.soup)))

\* ============================================================ claims: C2

QualifyingTitle(title) == Contains(title, MaleKata) \/ Contains(title, FemaleKata)

\* The places of the links that are returned: datalink2 links followed by at
\* least three more datalink2 links, with a qualifying title.
KeptPlaces(doc) ==
    LET links == {p \in 1..Len(doc) : doc[p].tag = "a" /\ doc[p].class = "datalink2"}
    IN  {p \in links : /\ Cardinality({q \in links : q > p}) >= 3
                       /\ QualifyingTitle(doc[p].title)}

\* The n-th smallest element of a set of numbers.
Nth(S, n) == CHOOSE p \in S : Cardinality({q \in S : q <= p}) = n

\* C2: the URLs returned are, in document order and with duplicates, the
\* base path followed by the href of each datalink2 link that is not among
\* the last three and whose title contains "Male Kata" or "Female Kata"; no
\* kumite or team-kata link is among them.
C2_RoundUrls ==
    (call = "get_rounds_urls" /\ pc \in {"returned", "raised"}) =>
        /\ (pc = "raised") <=> arg.failed
        /\ (pc = "returned" =>
               LET doc == arg.soup.doc
                   kept == KeptPlaces(doc)
               IN  /\ Len(ret.urls) = Cardinality(kept)
                   /\ \A n \in 1..Len(ret.urls) :
                          /\ ret.urls[n] = <<BasePath>> \o doc[Nth(kept, n)].href
                          /\ doc[Nth(kept, n)].title \notin {MaleKumite, FemaleTeamKata}
                   /\ (Len(FindAll(doc, "a", {"datalink2"})) <= 3 => ret.urls = <<>>))

\* A page with five links, whose first two are the same kata link, gave that
\* link's URL twice.
C2_Witness ==
    /\ call = "get_rounds_urls" /\ pc = "returned"
    /\ Len(arg.soup.doc) = 5
    /\ arg.soup.doc[4].title = MaleKata
    /\ Len(ret.urls) = 2 /\ ret.urls[1] = ret.urls[2]

\* ============================================================ claims: C5

\* Whether a row of a pool table is a graded performance.
Graded(tr) ==
    tr.class \in PerformanceClasses /\ tr.tds[3] # <<>> /\ Len(tr.trs) >= 2

\* The competitors of the graded rows of a page, pool after pool and row after
\* row.
CompetitorsInPageOrder(soup) ==
    Flatten([t \in 1..Len(soup.doc) |->
                LET graded == SelectSeq(soup.doc[t].rows, Graded)
                IN  [k \in 1..Len(graded) |-> graded[k].bold[1]]])

\* The records of the rounds of event e (of every event when e = 0) that the
\* log holds, in the order the rounds were fetched.
RECURSIVE RecordsFetched(_, _)
RecordsFetched(l, e) ==
    IF l = <<>> THEN <<>>
    ELSE (IF /\ l[1].round > 0
             /\ l[1].outcome.raised = NoError
             /\ e \in {0, l[1].event}
          THEN l[1].outcome.data
          ELSE <<>>) \o RecordsFetched(Tail(l), e)

\* C5: a round's records follow the pools and, in a pool, the rows; an event's
\* table holds the records of its rounds in the order of the round URLs; the
\* table of concat_tournaments holds the events' tables in the order of the
\* file: every record once, none dropped.
C5_ConcatenationOrder ==
    /\ (call = "get_round_performances" /\ pc = "returned") =>
           LET competitors == CompetitorsInPageOrder(arg.soup)
           IN  /\ Len(ret.data) = Len(competitors)
               /\ \A r \in 1..Len(ret.data) :
                      /\ ret.data[r].Name = CompetitorName(competitors[r])
                      /\ ret.data[r].Nationality = CompetitorNationality(competitors[r])
    /\ (call = "concat_tournaments") =>
           /\ \A e \in 1..Len(frames) : frames[e] = RecordsFetched(log, e)
           /\ (pc = "returned" =>
                  /\ ret.df = RecordsFetched(log, 0)
                  /\ Len(frames) = Len(draws_urls)
                  /\ Len(ret.df) = Len(Flatten(frames)))

\* Two events were aggregated: the first gave B then A, the second A alone.
C5_Witness ==
    /\ call = "concat_tournaments" /\ pc = "returned"
    /\ Len(frames) = 2
    /\ Len(frames[1]) = 2 /\ frames[1][1].Name = <<"B">> /\ frames[1][2].Name = <<"A">>
    /\ Len(frames[2]) = 1
    /\ Len(ret.df) = 3 /\ ret.df[3].Name = <<"A">>

\* ============================================================ claims: C8

Failures == {n \in 1..Len(log) : log[n].outcome.raised # NoError}

\* The rounds of event e that were fetched.
RoundsFetched(e) == {log[n].round : n \in {m \in 1..Len(log) : log[m].event = e}} \ {0}

\* The round URLs the index page of event e gave.
UrlsOf(e) ==
    LET n == CHOOSE m \in 1..Len(log) : log[m].event = e /\ log[m].round = 0
    IN  log[n].outcome.urls

\* C8: a failure in a round or an index page ends concat_tournaments there:
\* nothing is fetched after it, the exception is what the call gives and no
\* table is returned; and a table is returned only when every event of the
\* file and every round of it were processed without failure.
C8_NoPartialFailureIsolation ==
    (call = "concat_tournaments") =>
        /\ Len(fetched) = Len(log)
        /\ Failures \subseteq {Len(log)}
        /\ (Failures # {} => pc = "raised" /\ ret = log[Len(log)].outcome)
        /\ (pc = "raised" => "df" \notin DOMAIN ret)
        /\ (pc = "returned" =>
               /\ Failures = {}
               /\ \A e \in 1..Len(draws_urls) :
                      /\ \E n \in 1..Len(log) : log[n].event = e /\ log[n].round = 0
                      /\ RoundsFetched(e) = 1..Len(UrlsOf(e)))

\* The second round of the second event failed after the first event had
\* given records: nothing is returned.
C8_Witness ==
    /\ call = "concat_tournaments" /\ pc = "raised"
    /\ Len(draws_urls) = 2
    /\ Len(frames) = 1 /\ frames[1] # <<>>
    /\ log[Len(log)].event = 2 /\ log[Len(log)].round = 2
    /\ data_rounds # <<>>

\* ============================================================ claims: C10

\* The events whose index page gave no round URL.
EventsWithoutRounds ==
    {log[n].event : n \in {m \in 1..Len(log) :
        /\ log[m].round = 0
        /\ log[m].outcome.raised = NoError
        /\ log[m].outcome.urls = <<>>}}

\* C10: an event without round URLs makes get_performances raise, which ends
\* concat_tournaments for every event of the file, and so does a file without
\* events; a table is never returned then. Without a failed fetch nothing
\* else raises: rounds that give no record do not.
C10_NoEmptyResult ==
    (call = "concat_tournaments") =>
        /\ (EventsWithoutRounds # {} =>
               /\ EventsWithoutRounds = {j}
               /\ log[Len(log)].event = j /\ log[Len(log)].round = 0
               /\ pc \in {"get_round_performances", "raised"})
        /\ (draws_urls = <<>> => pc \in {"get_performances", "raised"})
        /\ (pc = "returned" => draws_urls # <<>> /\ EventsWithoutRounds = {})
        /\ (pc = "raised" /\ Failures = {} =>
               /\ ret = Raise(ValueError)
               /\ draws_urls = <<>> \/ EventsWithoutRounds = {j})

\* The first event gave a table, the second has no round URL: the call raised.
C10_Witness ==
    /\ call = "concat_tournaments" /\ pc = "raised"
    /\ ret = Raise(ValueError)
    /\ Failures = {}
    /\ Len(frames) = 1
    /\ EventsWithoutRounds = {2}

====
